---- MODULE Spec2Model ----
(***************************************************************************)
(* Model of the Dagger class (Objects/Dagger.py): the learning-moment      *)
(* selector find_best_learning_moment, the ridge loss_function and the     *)
(* five-round dijkstra_search over the in-memory games DataFrame.          *)
(*                                                                         *)
(* Conventions.  DataFrame labels and positions are 0-based as in the      *)
(* code; the TLA+ sequence games holds label i at games[i + 1].  A missing *)
(* value (None / NaN) of a numeric column is the empty sequence <<>> and a *)
(* present value v is <<v>>.  Costs are exact rationals num/den (the       *)
(* code's float64 rounding is not modelled); a NaN cost is its own value.  *)
(***************************************************************************)
EXTENDS Integers, Sequences, FiniteSets, TLC

VARIABLES
    games,              \* self.games: the archive, a sequence of rows
    positions,          \* self.user_parser.positions
    user_preference,    \* self.user_preference
    user_board_sum,     \* self.user_board_sum
    user_centipawn,     \* self.user_centipawn (<<>> when None)
    best_index,         \* self.best_index
    results,            \* self.results: 1..5 -> {} or {'parser', 'ply'}
    current_board_sum,  \* local of dijkstra_search
    run,                \* loop variable of dijkstra_search (0-based)
    best_move,          \* local of dijkstra_search: the selected row
    pc,                 \* control point of the session
    error,              \* the exception that ended the session, if any
    calls,              \* number of __call__ invocations started
    trace,              \* log of the rounds of the current __call__
    history,            \* the earlier run of the search, once it was repeated
    probe               \* argument/result cell of the pure-function specs

vars == <<games, positions, user_preference, user_board_sum, user_centipawn,
          best_index, results, current_board_sum, run, best_move, pc, error,
          calls, trace, history, probe>>

-----------------------------------------------------------------------------
(* Bounds of the model and constants of the program *)

MaxRows == 3

NumRounds == 5

DefaultDepth == 10

LambdaNum == 1

LambdaDen == 100

PrefixPlies == 12

Games == {1, 2}

Fingerprints == {1, 2}

EvalValues == {-2, 3}

TargetValues == {1}

Preferences == {"white", "black"}

Absent == <<>>

Some(v) == <<v>>

IsAbsent(x) == x = Absent

Evals == {Absent} \cup {Some(v) : v \in EvalValues}

Targets == {Absent} \cup {Some(v) : v \in TargetValues}

-----------------------------------------------------------------------------
(* Arithmetic and sequence helpers *)

Abs(x) == IF x < 0 THEN -x ELSE x

Min(a, b) == IF a < b THEN a ELSE b

RECURSIVE SumSeq(_)
SumSeq(s) == IF s = <<>> THEN 0 ELSE Head(s) + SumSeq(Tail(s))

-----------------------------------------------------------------------------
(* The archive: self.games as read_entire_directory returns it, with the   *)
(* default RangeIndex 0 .. N-1                                             *)

NRows == Len(games)

\* the row with label (= position) i of self.games
Row(i) == games[i + 1]

Labels == 0 .. (NRows - 1)

\* ply of the row at position i of a game assignment g: plies of one game
\* count up from 0 in archive order
PlyOf(g, i) == Cardinality({j \in 1 .. (i - 1) : g[j] = g[i]})

MkArchive(n, g, b, e) ==
    [i \in 1 .. n |-> [game_id              |-> g[i],
                       ply                  |-> PlyOf(g, i),
                       board_sum            |-> b[i],
                       centipawn_evaluation |-> e[i],
                       pgn                  |-> g[i]]]

\* every archive of at most maxrows rows over Games, the fingerprints fps
\* and Evals (the first row belongs to game 1: game ids are interchangeable)
ArchivesOver(maxrows, fps) ==
    UNION {{MkArchive(n, g, b, e) :
                g \in {h \in [1 .. n -> Games] : n = 0 \/ h[1] = 1},
                b \in [1 .. n -> fps],
                e \in [1 .. n -> Evals]} : n \in 0 .. maxrows}

GeneralArchives == ArchivesOver(MaxRows, Fingerprints)

\* one game of NumRounds or NumRounds + 1 plies whose positions are all
\* different (fingerprints 1, 2, 3, ...), with one evaluation throughout
ChainArchives ==
    {MkArchive(n, [i \in 1 .. n |-> 1], [i \in 1 .. n |-> i],
               [i \in 1 .. n |-> e]) :
        n \in {NumRounds, NumRounds + 1}, e \in Evals}

Archives == GeneralArchives \cup ChainArchives

\* the window means of the three-candidate scenario and what each
\* candidate's own evaluation differs from its window's mean
ScenarioMeans == {12, 48, 95}

ScenarioOffset == [m \in ScenarioMeans |-> IF m = 48 THEN 2 ELSE IF m = 12 THEN -2 ELSE -5]

-----------------------------------------------------------------------------
(* loss_function *)

\* a slice of depth + 1 rows: start_idx .. start_idx + depth
WindowLabels_wide(start_idx, depth) ==
    {i \in Labels : start_idx <= i /\ i <= start_idx + depth}

\* a slice that stops one row short of the archive's last row
WindowLabels_short(start_idx, depth) ==
    {i \in Labels : start_idx <= i /\ i <= start_idx + depth - 1
                                   /\ i < NRows - 1}

\* self.games.loc[start_idx : start_idx + depth - 1]: a label slice of a
\* RangeIndex, both ends included, clipped to the labels that exist
WindowLabels(start_idx, depth) ==
    {i \in Labels : start_idx <= i /\ i <= start_idx + depth - 1}

\* the 'centipawn_evaluation' values of the window that are present
\* (np.mean of a Series is Series.mean, which skips NaN)
PresentLabels(start_idx, depth) ==
    {i \in WindowLabels(start_idx, depth) :
        ~IsAbsent(Row(i).centipawn_evaluation)}

RECURSIVE SumEvals(_)
SumEvals(S) ==
    IF S = {} THEN 0
    ELSE LET i == CHOOSE x \in S : TRUE
         IN  Row(i).centipawn_evaluation[1] + SumEvals(S \ {i})

NaN == [nan |-> TRUE, num |-> 0, den |-> 1]

Rational(n, d) == [nan |-> FALSE, num |-> n, den |-> d]

\* the sign with the test of the preference the wrong way round
PreferenceSign_flipped == IF user_preference = "black" THEN 1 ELSE -1

PreferenceSign == IF user_preference # "black" THEN 1 ELSE -1

\* pred = mean * sign as the pair (numerator, count): pred = pnum / pcnt
PredNum(start_idx, depth) ==
    SumEvals(PresentLabels(start_idx, depth)) * PreferenceSign

PredCnt(start_idx, depth) == Cardinality(PresentLabels(start_idx, depth))

\* mse_term / depth + reg_term with pred = p / n and target t:
\*   (p/n - t)^2 / depth + (LambdaNum/LambdaDen) * (p/n)^2
\* = (LambdaDen (p - t n)^2 + depth LambdaNum p^2) / (depth LambdaDen n^2)
LossValue(p, n, t, depth) ==
    Rational(LambdaDen * (p - t * n) * (p - t * n) + depth * LambdaNum * p * p,
             depth * LambdaDen * n * n)

\* the value loss_function(row, depth) returns for row.name = start_idx
\* (when it returns: see loss_raises)
loss_function(start_idx, depth) ==
    IF PredCnt(start_idx, depth) = 0 THEN NaN
    ELSE LossValue(PredNum(start_idx, depth), PredCnt(start_idx, depth),
                   user_centipawn[1], depth)

\* pred - self.user_centipawn with user_centipawn None is a TypeError
loss_raises == IsAbsent(user_centipawn)

RECURSIVE GCD(_, _)
GCD(a, b) == IF b = 0 THEN a ELSE GCD(b, a % b)

\* a.num / a.den < b.num / b.den, the denominators (both positive) freed of
\* their common factor first
RatLess(a, b) ==
    LET g == GCD(a.den, b.den)
    IN  a.num * (b.den \div g) < b.num * (a.den \div g)

RatEq(a, b) ==
    LET g == GCD(a.den, b.den)
    IN  a.num * (b.den \div g) = b.num * (a.den \div g)

\* float comparison a < b; every comparison with NaN is False
CostLess(a, b) == ~a.nan /\ ~b.nan /\ RatLess(a, b)

\* float comparison a == b
CostEq(a, b) == ~a.nan /\ ~b.nan /\ RatEq(a, b)

-----------------------------------------------------------------------------
(* heapq on a list of (cost, index) tuples.  A heap is a sequence of        *)
(* records [cost, idx]; list position p is element p + 1 of the sequence.  *)

\* Python's tuple a < b: the first items that are not == decide, and two
\* float objects of which one is NaN are never ==
TupleLess(a, b) ==
    IF CostEq(a.cost, b.cost) THEN a.idx < b.idx
    ELSE CostLess(a.cost, b.cost)

RECURSIVE siftdown(_, _, _, _)
\* heapq._siftdown(heap, startpos, pos) carrying newitem = heap[pos]
siftdown(heap, startpos, pos, newitem) ==
    LET parentpos == (pos - 1) \div 2
    IN  IF pos > startpos /\ TupleLess(newitem, heap[parentpos + 1])
        THEN siftdown([heap EXCEPT ![pos + 1] = heap[parentpos + 1]],
                      startpos, parentpos, newitem)
        ELSE [heap EXCEPT ![pos + 1] = newitem]

RECURSIVE siftup_loop(_, _, _, _)
\* the while loop of heapq._siftup: move the smaller child up until a leaf
\* is reached, then sift newitem down from there
siftup_loop(heap, startpos, pos, newitem) ==
    LET endpos   == Len(heap)
        leftpos  == 2 * pos + 1
        rightpos == leftpos + 1
        childpos == IF rightpos < endpos
                       /\ ~TupleLess(heap[leftpos + 1], heap[rightpos + 1])
                    THEN rightpos ELSE leftpos
    IN  IF leftpos < endpos
        THEN siftup_loop([heap EXCEPT ![pos + 1] = heap[childpos + 1]],
                         startpos, childpos, newitem)
        ELSE siftdown(heap, startpos, pos, newitem)

siftup(heap, pos) == siftup_loop(heap, pos, pos, heap[pos + 1])

RECURSIVE heapify_from(_, _)
\* for i in reversed(range(n // 2)): _siftup(x, i), from i downward
heapify_from(heap, i) ==
    IF i < 0 THEN heap ELSE heapify_from(siftup(heap, i), i - 1)

heapify(x) == heapify_from(x, (Len(x) \div 2) - 1)

\* the item heappop returns from a non-empty heap
heappop(heap) == heap[1]

-----------------------------------------------------------------------------
(* find_best_learning_moment *)

\* position.centipawn if position.centipawn else 0 (None and 0 both give 0)
CentipawnOrZero(position) ==
    IF IsAbsent(position.centipawn) THEN 0 ELSE position.centipawn[1]

\* self.user_parser.positions[:12]
Prefix == SubSeq(positions, 1, Min(Len(positions), PrefixPlies))

\* the differences with a zero put before the first evaluation
net_changes_prepend ==
    [i \in 1 .. Len(Prefix) |->
        Abs(CentipawnOrZero(Prefix[i])
              - (IF i = 1 THEN 0 ELSE CentipawnOrZero(Prefix[i - 1])))]

\* np.abs(np.diff(...)): entry i (0-based) is |v[i+1] - v[i]|
net_changes ==
    [i \in 1 .. (Len(Prefix) - 1) |->
        Abs(CentipawnOrZero(Prefix[i + 1]) - CentipawnOrZero(Prefix[i]))]

\* the last index of the maximum
argmax_last(a) ==
    (CHOOSE i \in 1 .. Len(a) :
        /\ \A j \in 1 .. Len(a) : a[j] <= a[i]
        /\ \A j \in (i + 1) .. Len(a) : a[j] < a[i]) - 1

\* np.argmax: the first (0-based) index of the maximum
argmax(a) ==
    (CHOOSE i \in 1 .. Len(a) :
        /\ \A j \in 1 .. Len(a) : a[j] <= a[i]
        /\ \A j \in 1 .. (i - 1) : a[j] < a[i]) - 1

\* np.argmax of an empty array raises ValueError
selector_raises == Len(net_changes) = 0

-----------------------------------------------------------------------------
(* dijkstra_search *)

RECURSIVE FilterFrom(_, _)
\* labels of the rows with board_sum = fp, in archive order, from label i on
FilterFrom(fp, i) ==
    IF i >= NRows THEN <<>>
    ELSE IF Row(i).board_sum = fp THEN <<i>> \o FilterFrom(fp, i + 1)
    ELSE FilterFrom(fp, i + 1)

\* the frame without the mask applied: every row of the archive
filtered_games_unmasked(fp) == [k \in 1 .. NRows |-> k - 1]

\* self.games[self.games['board_sum'] == current_board_sum]
\*     .reset_index(drop=True): element k + 1 is the archive label of the
\* row that gets the new label k
filtered_games(fp) == FilterFrom(fp, 0)

\* list(zip(costs, filtered_games.index)) with
\* costs = filtered_games.apply(lambda row: self.loss_function(row), axis=1):
\* row.name is the label after reset_index
queue(fp) ==
    [k \in 1 .. Len(filtered_games(fp)) |->
        [cost |-> loss_function(k - 1, DefaultDepth), idx |-> k - 1]]

\* best_index = heapq.heappop(queue)[1] after heapq.heapify(queue)
popped_index(fp) == heappop(heapify(queue(fp))).idx

\* filtered_games.iloc[best_index], as the label of that row in self.games
selected_label(fp) == filtered_games(fp)[popped_index(fp) + 1]

RECURSIVE FilterNext(_, _)
FilterNext(move, i) ==
    IF i >= NRows THEN <<>>
    ELSE IF Row(i).ply = move.ply + 1 /\ Row(i).game_id = move.game_id
         THEN <<i>> \o FilterNext(move, i + 1)
    ELSE FilterNext(move, i + 1)

RECURSIVE FilterNextPly(_, _)
FilterNextPly(move, i) ==
    IF i >= NRows THEN <<>>
    ELSE IF Row(i).ply = move.ply + 1
         THEN <<i>> \o FilterNextPly(move, i + 1)
    ELSE FilterNextPly(move, i + 1)

\* the rows of the next ply of any game
next_board_sum_row_anygame(move) == FilterNextPly(move, 0)

\* self.games[(ply == best_move.ply + 1) & (game_id == best_move.game_id)]
next_board_sum_row(move) == FilterNext(move, 0)

-----------------------------------------------------------------------------
(* The session: __init__, __call__ and the loop of dijkstra_search *)

NoEntry == <<>>

\* {'parser': Parser(best_move['pgn'], False), 'ply': best_move['ply']}
Entry(move) == <<[parser |-> move.pgn, ply |-> move.ply]>>

NoMove == <<>>

Rounds == 1 .. NumRounds

\* self.results = {i + 1: {} for i in range(5)}
EmptyResults == [r \in Rounds |-> NoEntry]

Position(f, c) == [bitboard_integers |-> f, centipawn |-> c]

\* the user's games of the search sessions: two plies, so that the first
\* is the learning moment, and one game of a single ply.  The learning
\* moment has fingerprint 1: the archives range over all fingerprints
ShortUserSeqs ==
    {<<Position(1, c), Position(1, Absent)>> : c \in Targets}
        \cup {<<Position(1, Absent)>>}

\* the rows of one game of the three-candidate scenario: a candidate of
\* evaluation c followed by nine rows, the ten averaging m
ScenarioBlock(m, c) ==
    [i \in 1 .. DefaultDepth |->
        IF i = 1 THEN c
        ELSE IF i < DefaultDepth THEN m
        ELSE DefaultDepth * m - c - (DefaultDepth - 2) * m]

\* the three games in the order ord of their window means
ScenarioEvals(ord) ==
    ScenarioBlock(ord[1], ord[1] + ScenarioOffset[ord[1]])
        \o ScenarioBlock(ord[2], ord[2] + ScenarioOffset[ord[2]])
        \o ScenarioBlock(ord[3], ord[3] + ScenarioOffset[ord[3]])

\* three games of ten plies each; the first ply of each game has the
\* fingerprint 1, an evaluation of 10, 50 or 90 and ten rows from it on
\* averaging 12, 48 or 95; every other row has a fingerprint of its own.
\* The games come in any order.
ScenarioArchives ==
    {MkArchive(3 * DefaultDepth,
               [i \in 1 .. 3 * DefaultDepth |-> ((i - 1) \div DefaultDepth) + 1],
               [i \in 1 .. 3 * DefaultDepth |->
                   IF (i - 1) % DefaultDepth = 0 THEN 1 ELSE 100 + i],
               [i \in 1 .. 3 * DefaultDepth |-> Some(ScenarioEvals(ord)[i])]) :
        ord \in {o \in [1 .. 3 -> ScenarioMeans] :
                    \A a, b \in 1 .. 3 : a # b => o[a] # o[b]}}

\* the user's game of the scenario: the learning moment has the fingerprint
\* 1 and the evaluation 50
ScenarioUserSeq ==
    <<Position(1, Some(50)), Position(1, Absent)>>

Init ==
    /\ \/ /\ games \in Archives
          /\ positions \in ShortUserSeqs
       \/ /\ games \in ScenarioArchives
          /\ positions = ScenarioUserSeq
    /\ user_preference \in Preferences
    /\ user_board_sum = 0
    /\ user_centipawn = Absent
    /\ best_index = 0
    /\ results = EmptyResults
    /\ current_board_sum = 0
    /\ run = 0
    /\ best_move = NoMove
    /\ pc = "new"
    /\ error = "none"
    /\ calls = 0
    /\ trace = <<>>
    /\ history = <<>>
    /\ probe = <<>>

\* __init__ when find_best_learning_moment returns
Construct ==
    /\ pc = "new"
    /\ ~selector_raises
    /\ best_index' = argmax(net_changes)
    /\ user_board_sum' = positions[argmax(net_changes) + 1].bitboard_integers
    /\ user_centipawn' = positions[argmax(net_changes) + 1].centipawn
    /\ results' = EmptyResults
    /\ pc' = "ready"
    /\ UNCHANGED <<games, positions, user_preference, current_board_sum, run,
                   best_move, error, calls, trace, history, probe>>

\* __init__ when np.argmax raises ValueError on the empty net_changes
\* (the InsufficientHistory failure): no Dagger object comes to exist
ConstructRaises ==
    /\ pc = "new"
    /\ selector_raises
    /\ pc' = "raised"
    /\ error' = "InsufficientHistory"
    /\ UNCHANGED <<games, positions, user_preference, user_board_sum,
                   user_centipawn, best_index, results, current_board_sum,
                   run, best_move, calls, trace, history, probe>>

\* the fingerprint the search before left behind, where there was one
start_board_sum_stale ==
    IF calls = 0 THEN user_board_sum ELSE current_board_sum

\* line 183: current_board_sum = self.user_board_sum
start_board_sum == user_board_sum

\* __call__ entering dijkstra_search
Call ==
    /\ pc = "ready"
    /\ calls' = calls + 1
    /\ current_board_sum' = start_board_sum
    /\ run' = 0
    /\ trace' = <<>>
    /\ pc' = "select"
    /\ UNCHANGED <<games, positions, user_preference, user_board_sum,
                   user_centipawn, best_index, results, best_move, error,
                   history, probe>>

\* lines 186-193 with no filtered row: apply calls nothing, the queue is
\* empty and heappop raises IndexError (the NoCandidates failure)
SelectNoCandidates ==
    /\ pc = "select"
    /\ Len(filtered_games(current_board_sum)) = 0
    /\ pc' = "raised"
    /\ error' = "NoCandidates"
    /\ UNCHANGED <<games, positions, user_preference, user_board_sum,
                   user_centipawn, best_index, results, current_board_sum,
                   run, best_move, calls, trace, history, probe>>

\* line 189 with a filtered row and self.user_centipawn None: TypeError
SelectTypeError ==
    /\ pc = "select"
    /\ Len(filtered_games(current_board_sum)) > 0
    /\ loss_raises
    /\ pc' = "raised"
    /\ error' = "TypeError"
    /\ UNCHANGED <<games, positions, user_preference, user_board_sum,
                   user_centipawn, best_index, results, current_board_sum,
                   run, best_move, calls, trace, history, probe>>

\* d[k] = v on a dict: the key k is added when d does not hold it yet
SetItem(d, k, v) ==
    IF k \in DOMAIN d THEN [d EXCEPT ![k] = v]
    ELSE [x \in (DOMAIN d) \cup {k} |-> IF x = k THEN v ELSE d[x]]

\* the key one beyond that of the round
result_key_shifted == run + 2

\* line 201: the key of self.results[run + 1]
result_key == run + 1

\* self.games rebound to the filtered frame
games_after_filter_rebound(fp) ==
    [k \in 1 .. Len(filtered_games(fp)) |-> Row(filtered_games(fp)[k])]

\* self.games after line 186: the boolean-mask indexing and
\* reset_index(drop=True) both return a new frame, and the later lines only
\* read self.games (.loc in loss_function, the mask of line 204)
games_after_filter(fp) == games

\* lines 186-201: filter, score, pop the heap, record the round
Select ==
    /\ pc = "select"
    /\ Len(filtered_games(current_board_sum)) > 0
    /\ ~loss_raises
    /\ LET label == selected_label(current_board_sum)
       IN  /\ best_move' = <<Row(label)>>
           /\ results' = SetItem(results, result_key, Entry(Row(label)))
           /\ trace' = Append(trace, [board_sum |-> current_board_sum,
                                      label     |-> label,
                                      entry     |-> Entry(Row(label))])
    /\ games' = games_after_filter(current_board_sum)
    /\ pc' = "advance"
    /\ UNCHANGED <<positions, user_preference, user_board_sum,
                   user_centipawn, best_index, current_board_sum, run, error,
                   calls, history, probe>>

\* lines 204-205 with no successor row: .iloc[0] raises IndexError
\* (the ContinuationExhausted failure)
AdvanceExhausted ==
    /\ pc = "advance"
    /\ Len(next_board_sum_row(best_move[1])) = 0
    /\ pc' = "raised"
    /\ error' = "ContinuationExhausted"
    /\ UNCHANGED <<games, positions, user_preference, user_board_sum,
                   user_centipawn, best_index, results, current_board_sum,
                   run, best_move, calls, trace, history, probe>>

\* lines 204-205 and the next iteration of for run in range(5)
Advance ==
    /\ pc = "advance"
    /\ Len(next_board_sum_row(best_move[1])) > 0
    /\ current_board_sum' = Row(next_board_sum_row(best_move[1])[1]).board_sum
    /\ IF run + 1 < NumRounds
       THEN run' = run + 1 /\ pc' = "select"
       ELSE run' = run /\ pc' = "returned"
    /\ UNCHANGED <<games, positions, user_preference, user_board_sum,
                   user_centipawn, best_index, results, best_move, error,
                   calls, trace, history, probe>>

Next ==
    \/ Construct
    \/ ConstructRaises
    \/ Call
    \/ SelectNoCandidates
    \/ SelectTypeError
    \/ Select
    \/ AdvanceExhausted
    \/ Advance

Spec == Init /\ [][Next]_vars

-----------------------------------------------------------------------------
(* Properties of the search session *)

\* the rounds whose entry of self.results is filled
Recorded == {r \in Rounds : results[r] # NoEntry}

\* some archive row carries the fingerprint fp
Matched(fp) == \E i \in Labels : Row(i).board_sum = fp

\* the record at (game_id, ply + 1) of the row move exists
HasSuccessor(move) ==
    \E i \in Labels :
        /\ Row(i).game_id = move.game_id
        /\ Row(i).ply = move.ply + 1

\* C1: a round that starts with a fingerprint no archive row carries ends the
\* search with the NoCandidates failure; the entries recorded are exactly
\* those of the rounds completed before it (run of them) and the failing
\* round records nothing.
C1_NoCandidates ==
    [][(pc = "select" /\ ~Matched(current_board_sum))
          => /\ pc' = "raised"
             /\ error' = "NoCandidates"
             /\ results' = results
             /\ Recorded' = 1 .. run]_vars

\* (a later round filters on the fingerprint of an archive row, the successor
\* found by the round before, so it is the first round that can fail so)
C1_Witness ==
    /\ pc = "raised"
    /\ error = "NoCandidates"
    /\ run = 0
    /\ Recorded = {}
    /\ NRows > 0

\* C2 (as claimed): a selection without a successor record ends the search
\* with the ContinuationExhausted failure after the round was recorded, with
\* between 1 and 4 rounds completed, and without another candidate being
\* tried for the round.
C2_Claimed ==
    [][(pc = "advance" /\ ~HasSuccessor(best_move[1]))
          => /\ pc' = "raised"
             /\ error' = "ContinuationExhausted"
             /\ results' = results
             /\ results[run + 1] = Entry(best_move[1])
             /\ Recorded' = 1 .. (run + 1)
             /\ Cardinality(Recorded') \in 1 .. (NumRounds - 1)]_vars

\* what the code does keep of C2: all of it but the upper limit of 4
C2_UpToFive ==
    [][(pc = "advance" /\ ~HasSuccessor(best_move[1]))
          => /\ pc' = "raised"
             /\ error' = "ContinuationExhausted"
             /\ results' = results
             /\ results[run + 1] = Entry(best_move[1])
             /\ Recorded' = 1 .. (run + 1)
             /\ Cardinality(Recorded') \in 1 .. NumRounds]_vars

\* C3 (as claimed): once the fifth round has recorded its selection the
\* search returns the five entries, whether or not that selection has a
\* successor record.
C3_Claimed ==
    [][(pc = "advance" /\ run = NumRounds - 1)
          => /\ pc' = "returned"
             /\ error' = "none"
             /\ Recorded' = Rounds]_vars

\* what the code does: the fifth round returns only if its selection has a
\* successor record
C3_WithSuccessor ==
    [][(pc = "advance" /\ run = NumRounds - 1 /\ HasSuccessor(best_move[1]))
          => /\ pc' = "returned"
             /\ error' = "none"
             /\ Recorded' = Rounds]_vars

\* C5 (as claimed): no round selects and records a row whose
\* centipawn_evaluation is absent.
C5_Claimed ==
    pc = "advance" => ~IsAbsent(best_move[1].centipawn_evaluation)

\* the entries self.results holds, and those of them that are filled
EntriesHeld == DOMAIN results

FilledEntries == {k \in DOMAIN results : results[k] # NoEntry}

\* C11: self.results never holds more than 5 entries, during the search and
\* at its end: its keys stay within 1 .. 5, so neither the entries it holds
\* nor the filled ones among them number more than 5.
C11_AtMostFive ==
    /\ EntriesHeld \subseteq Rounds
    /\ Cardinality(EntriesHeld) <= NumRounds
    /\ Cardinality(FilledEntries) <= NumRounds

\* a search that returned with all five entries filled
C11_Witness ==
    /\ pc = "returned"
    /\ Cardinality(FilledEntries) = NumRounds
    /\ Len(trace) = NumRounds

\* C12: no step of the search changes the archive: after every round, and
\* when the search stops with an error, the rows of self.games, their order
\* and their column values are those the search started with.
C12_SnapshotUnchanged ==
    [][(pc \in {"ready", "select", "advance"}) => games' = games]_vars

\* a search over a non-empty archive that stopped with an error after it
\* had completed two rounds or more
C12_Witness ==
    /\ pc = "raised"
    /\ error = "ContinuationExhausted"
    /\ Len(trace) >= 2
    /\ NRows >= 2

\* the cost of the mean over the lookahead rows from the archive row of
\* label own on
OwnWindowCost(own) == loss_function(own, DefaultDepth)

\* two costs are the same float
SameCost(a, b) == (a.nan /\ b.nan) \/ CostEq(a, b)

\* the sum of the evaluations of the rows label .. label + 9
OwnWindowSum(label) ==
    SumEvals({i \in WindowLabels(label, DefaultDepth) :
                 ~IsAbsent(Row(i).centipawn_evaluation)})

\* C13, the rule (as claimed): in every round the cost given to a filtered
\* candidate is that of the mean over the lookahead rows that start at the
\* candidate's own row of the full archive.
C13_OwnWindow ==
    (pc = "select" /\ ~loss_raises) =>
        \A k \in 1 .. Len(filtered_games(current_board_sum)) :
            SameCost(queue(current_board_sum)[k].cost,
                     OwnWindowCost(filtered_games(current_board_sum)[k]))

\* C13, the scenario (as claimed): with the three candidates, the target 50
\* and the preference for the higher evaluation, round 1 selects the
\* candidate whose own window averages 48.
C13_Scenario ==
    (games \in ScenarioArchives /\ user_preference = "white"
        /\ Len(trace) >= 1)
        => OwnWindowSum(trace[1].label) = 48 * DefaultDepth

\* C13 (as claimed): the rule and the scenario.
C13_Claimed == C13_OwnWindow /\ C13_Scenario

\* the round just recorded: its fingerprint, its candidates (archive labels
\* in archive order), the costs they were given and the candidate selected
RoundLabels == filtered_games(current_board_sum)

RoundCost(k) == queue(current_board_sum)[k].cost

RoundSelected ==
    CHOOSE k \in 1 .. Len(RoundLabels) :
        RoundLabels[k] = trace[Len(trace)].label

\* the selected row carries the fingerprint of the round
SelectedIsCandidate ==
    /\ \E k \in 1 .. Len(RoundLabels) :
          RoundLabels[k] = trace[Len(trace)].label
    /\ Row(trace[Len(trace)].label).board_sum = current_board_sum
    /\ best_move = <<Row(trace[Len(trace)].label)>>

\* no candidate has a cost below that of the selected one, and the selected
\* one has a cost that is a number whenever some candidate has one
SelectedIsMinimum ==
    \A k \in 1 .. Len(RoundLabels) :
        ~RoundCost(k).nan =>
            /\ ~RoundCost(RoundSelected).nan
            /\ ~RatLess(RoundCost(k), RoundCost(RoundSelected))

\* of the candidates having the cost of the selected one, the selected one
\* comes first in the archive
SelectedIsFirst ==
    \A k \in 1 .. Len(RoundLabels) :
        SameCost(RoundCost(k), RoundCost(RoundSelected))
            => RoundLabels[RoundSelected] <= RoundLabels[k]

\* C14 (as claimed): in every round the selected row is one of the rows
\* with the fingerprint of the round, has the minimum cost among them, and
\* is the first of them in archive order among those of minimum cost.
C14_Claimed ==
    (pc = "advance") =>
        /\ SelectedIsCandidate
        /\ SelectedIsMinimum
        /\ SelectedIsFirst

\* what the code does keep of C14: all of it in the rounds in which every
\* candidate's cost is a number
C14_NumericCosts ==
    (pc = "advance"
        /\ \A k \in 1 .. Len(RoundLabels) : ~RoundCost(k).nan)
        => /\ SelectedIsCandidate
           /\ SelectedIsMinimum
           /\ SelectedIsFirst

\* the archive rows at (game_id, ply + 1) of the row of label l
SuccessorLabels(l) ==
    {i \in Labels : /\ Row(i).game_id = Row(l).game_id
                    /\ Row(i).ply = Row(l).ply + 1}

\* C15: the rounds run one after the other, round 1 filters on the start
\* fingerprint the selector returned, and for k in 1 .. 4 round k + 1
\* filters on the fingerprint of the archive record at (game_id, ply + 1) of
\* the record selected in round k.
C15_RoundChain ==
    /\ (pc = "select") => Len(trace) = run
    /\ (pc \in {"advance", "returned"}) => Len(trace) = run + 1
    /\ Len(trace) <= NumRounds
    /\ (pc \in {"ready", "select", "advance", "returned"}) =>
          user_board_sum = positions[best_index + 1].bitboard_integers
    /\ Len(trace) >= 1 => trace[1].board_sum = user_board_sum
    /\ \A k \in 1 .. (Len(trace) - 1) :
          /\ SuccessorLabels(trace[k].label) # {}
          /\ \A i \in SuccessorLabels(trace[k].label) :
                trace[k + 1].board_sum = Row(i).board_sum

\* a search that went on, in its second round, with a row of another game
\* than that of the row it selected in the first
C15_Witness ==
    /\ Len(trace) >= 2
    /\ Row(trace[2].label).game_id # Row(trace[1].label).game_id
    /\ trace[2].board_sum # trace[1].board_sum

\* a Dagger object exists: __init__ returned
Constructed ==
    pc \in {"ready", "select", "advance", "returned"}
        \/ (pc = "raised" /\ calls > 0)

\* the rounds the search under way, or ended, has completed
RoundsCompleted == Len(trace)

\* C16 (as claimed): at every point of a session self.results holds as many
\* entries as rounds were completed so far, and a session that stopped
\* before round 5 does not present 5 entries.
C16_Claimed ==
    Constructed =>
        /\ Cardinality(EntriesHeld) = RoundsCompleted
        /\ (pc = "raised" /\ RoundsCompleted < NumRounds)
              => Cardinality(EntriesHeld) < NumRounds

\* what the code does keep of C16: in the first search of a Dagger the
\* filled entries are those of the rounds completed, in round order, and
\* each holds the selection of its round
C16_FilledFirstCall ==
    (Constructed /\ calls <= 1) =>
        /\ FilledEntries = 1 .. RoundsCompleted
        /\ \A r \in 1 .. RoundsCompleted : results[r] = trace[r].entry

\* the same of every search of a Dagger, which the code does not keep: the
\* entries of the search before stay until they are overwritten
C16_FilledEveryCall ==
    Constructed => FilledEntries = 1 .. RoundsCompleted

-----------------------------------------------------------------------------
(* The Cost Model on its own: loss_function applied to any row label and   *)
(* any depth over archives of up to MaxCostRows evaluations                *)

MaxCostRows == 4

CostDepths == {1, 2, 3, DefaultDepth}

CostTargetValues == {-1, 0, 2}

CostArchives ==
    UNION {{MkArchive(n, [i \in 1 .. n |-> 1], [i \in 1 .. n |-> 1], e) :
                e \in [1 .. n -> Evals]} : n \in 0 .. MaxCostRows}

InitCost ==
    /\ games \in CostArchives
    /\ positions = <<>>
    /\ user_preference \in Preferences
    /\ user_board_sum = 1
    /\ user_centipawn \in {Absent} \cup {Some(v) : v \in CostTargetValues}
    /\ best_index = 0
    /\ results = EmptyResults
    /\ current_board_sum = 0
    /\ run = 0
    /\ best_move = NoMove
    /\ pc = "cost"
    /\ error = "none"
    /\ calls = 0
    /\ trace = <<>>
    /\ history = <<>>
    /\ probe = <<>>

\* loss_function(row, depth) for a row of label start_idx, returning
ApplyLoss ==
    /\ pc = "cost"
    /\ ~loss_raises
    /\ \E start_idx \in Labels, depth \in CostDepths :
          probe' = <<[start_idx |-> start_idx,
                      depth     |-> depth,
                      read      |-> WindowLabels(start_idx, depth),
                      value     |-> loss_function(start_idx, depth)]>>
    /\ pc' = "costed"
    /\ UNCHANGED <<games, positions, user_preference, user_board_sum,
                   user_centipawn, best_index, results, current_board_sum,
                   run, best_move, error, calls, trace, history>>

\* loss_function(row, depth) with self.user_centipawn None: TypeError
ApplyLossRaises ==
    /\ pc = "cost"
    /\ loss_raises
    /\ NRows > 0
    /\ pc' = "raised"
    /\ error' = "TypeError"
    /\ UNCHANGED <<games, positions, user_preference, user_board_sum,
                   user_centipawn, best_index, results, current_board_sum,
                   run, best_move, calls, trace, history, probe>>

NextCost ==
    \/ ApplyLoss
    \/ ApplyLossRaises

SpecCost == InitCost /\ [][NextCost]_vars

\* the evaluations of the rows first .. last (labels), absent ones skipped
RECURSIVE PresentBetween(_, _)
PresentBetween(first, last) ==
    IF first > last THEN <<>>
    ELSE (IF IsAbsent(Row(first).centipawn_evaluation) THEN <<>>
          ELSE <<Row(first).centipawn_evaluation[1]>>)
         \o PresentBetween(first + 1, last)

\* a candidate within depth - 1 rows of the end of the archive
Truncated(p) == p.start_idx + p.depth - 1 > NRows - 1

\* C6: the Cost Model never reads a row label beyond the last archive row,
\* and for a candidate within lookahead - 1 rows of the archive's end it
\* averages exactly the rows from the candidate to the last row.
C6_Truncation ==
    (pc = "costed") =>
        LET p    == probe[1]
            last == Min(p.start_idx + p.depth - 1, NRows - 1)
            vals == PresentBetween(p.start_idx, last)
        IN  /\ \A i \in p.read : 0 <= i /\ i <= NRows - 1
            /\ p.read = p.start_idx .. last
            /\ Truncated(p) => p.read = p.start_idx .. (NRows - 1)
            /\ p.value.nan = (Len(vals) = 0)
            /\ ~p.value.nan =>
                  \* value = cost of the mean SumSeq(vals) / Len(vals)
                  CostEq(p.value,
                         LossValue(SumSeq(vals) * PreferenceSign, Len(vals),
                                   user_centipawn[1], p.depth))

C6_Witness ==
    /\ pc = "costed"
    /\ Truncated(probe[1])
    /\ probe[1].depth = DefaultDepth
    /\ probe[1].start_idx > 0
    /\ Cardinality(probe[1].read) = 2
    /\ ~probe[1].value.nan

\* C7: with m the mean of the window, the cost is
\* (m' - target)^2 / lookahead + lambda * m'^2, m' = -m for preference
\* "black" and m otherwise; lookahead defaults to 10 and lambda to 0.01.
\* With m = S / n and sg the sign, times 100 * lookahead * n^2 this reads
\* value * 100 * lookahead * n^2 = 100 (sg S - t n)^2 + lookahead (sg S)^2.
C7_CostFormula ==
    /\ DefaultDepth = 10
    /\ LambdaNum * 100 = LambdaDen
    /\ (pc = "costed") =>
          LET p    == probe[1]
              vals == PresentBetween(p.start_idx,
                                     Min(p.start_idx + p.depth - 1, NRows - 1))
              S    == SumSeq(vals)
              n    == Len(vals)
              sg   == IF user_preference = "black" THEN -1 ELSE 1
              t    == user_centipawn[1]
          IN  n > 0 =>
                /\ ~p.value.nan
                /\ p.value.den > 0
                /\ p.value.num * (100 * p.depth * n * n)
                     = p.value.den * (100 * (sg * S - t * n) * (sg * S - t * n)
                                        + p.depth * (sg * S) * (sg * S))

C7_Witness ==
    /\ pc = "costed"
    /\ user_preference = "black"
    /\ probe[1].depth = DefaultDepth
    /\ ~probe[1].value.nan
    /\ Cardinality(probe[1].read) = 3
    /\ user_centipawn = Some(2)
    /\ 10 * probe[1].value.num > 12 * probe[1].value.den

-----------------------------------------------------------------------------
(* The Learning-Moment Selector on its own: __init__ over user games of up *)
(* to MaxPlies plies.  A game has one evaluation throughout but for two    *)
(* plies, and the position after ply i has the fingerprint i.              *)

MaxPlies == 14

UserCentipawns == {Absent, Some(0), Some(-2), Some(3)}

BaseCentipawns == {Absent, Some(3)}

LongUserSeqs ==
    UNION {{[i \in 1 .. n |->
                Position(i, IF i = a THEN va ELSE IF i = b THEN vb ELSE base)] :
                a \in 1 .. n, b \in 1 .. n,
                va \in UserCentipawns, vb \in UserCentipawns,
                base \in BaseCentipawns} : n \in 0 .. MaxPlies}
        \cup {<<>>}

InitSelect ==
    /\ games = <<>>
    /\ positions \in LongUserSeqs
    /\ user_preference = "white"
    /\ user_board_sum = 0
    /\ user_centipawn = Absent
    /\ best_index = 0
    /\ results = EmptyResults
    /\ current_board_sum = 0
    /\ run = 0
    /\ best_move = NoMove
    /\ pc = "new"
    /\ error = "none"
    /\ calls = 0
    /\ trace = <<>>
    /\ history = <<>>
    /\ probe = <<>>

NextSelect ==
    \/ Construct
    \/ ConstructRaises

SpecSelect == InitSelect /\ [][NextSelect]_vars

\* the evaluation of the user's ply at 0-based index i, a missing one as zero
UserEval(i) ==
    IF positions[i + 1].centipawn = Absent THEN 0
    ELSE positions[i + 1].centipawn[1]

\* |evaluation[i+1] - evaluation[i]|
Swing(i) == Abs(UserEval(i + 1) - UserEval(i))

\* the indices i with both i and i + 1 among the first 12 plies
SwingIndices == {i \in 0 .. 10 : i + 1 <= Len(positions) - 1}

\* C8: over the first 12 plies, with a missing evaluation as zero, the
\* selector returns the smallest index i that maximizes
\* |evaluation[i+1] - evaluation[i]|, with the fingerprint and the
\* evaluation of the user's position at index i.
C8_Selector ==
    (pc = "ready") =>
        /\ best_index \in SwingIndices
        /\ \A j \in SwingIndices : Swing(j) <= Swing(best_index)
        /\ \A j \in SwingIndices : j < best_index => Swing(j) < Swing(best_index)
        /\ user_board_sum = positions[best_index + 1].bitboard_integers
        /\ user_centipawn = positions[best_index + 1].centipawn

\* a game of more than 12 plies whose largest swing lies beyond the 12th
\* ply and whose largest swing within the first 12 plies occurs twice
C8_Witness ==
    /\ pc = "ready"
    /\ Len(positions) > 13
    /\ Swing(12) > Swing(best_index)
    /\ best_index > 0
    /\ \E j \in SwingIndices : j > best_index /\ Swing(j) = Swing(best_index)
    /\ \E j \in 0 .. 11 : positions[j + 1].centipawn = Absent

\* C9: with fewer than 2 usable plies the selector fails with
\* InsufficientHistory and returns no (fingerprint, evaluation, index).
C9_InsufficientHistory ==
    [][(pc = "new" /\ Len(positions) < 2)
          => /\ pc' = "raised"
             /\ error' = "InsufficientHistory"
             /\ UNCHANGED <<user_board_sum, user_centipawn, best_index>>]_vars

C9_Witness ==
    /\ pc = "raised"
    /\ error = "InsufficientHistory"
    /\ Len(positions) = 1

-----------------------------------------------------------------------------
(* Two runs of the search: the first run's output is kept in history and   *)
(* the search runs again, by another __call__ of the same Dagger, by a new *)
(* Dagger over the same snapshot, or by a new Dagger over a snapshot that  *)
(* differs in one row carrying the fingerprint of the first run's round 3. *)

MaxPairRows == 2

LongRows == DefaultDepth + 2

\* 12 rows, more than a window: a game of three plies with the fingerprints
\* 1, 2, 3; a second game whose only ply repeats fingerprint 1; a third game
\* whose last two plies repeat fingerprint 3 and whose other plies have a
\* fingerprint of their own; that game and the second ply of the first
\* game have one evaluation
LongArchives ==
    {MkArchive(LongRows,
               [i \in 1 .. LongRows |->
                   IF i <= 3 THEN 1 ELSE IF i = 4 THEN 2 ELSE 3],
               [i \in 1 .. LongRows |->
                   IF i <= 3 THEN i ELSE IF i = 4 THEN 1
                   ELSE IF i >= LongRows - 1 THEN 3 ELSE 4],
               [i \in 1 .. LongRows |->
                   IF i \in {1, 3, 4} THEN e[i] ELSE et]) :
        e \in [{1, 3, 4} -> Evals], et \in Evals}

\* the user's game of the searches over the long archives
LongUserSeq == <<Position(1, Some(1)), Position(1, Absent)>>

InitTwo ==
    /\ \/ /\ games \in ArchivesOver(MaxPairRows, Fingerprints) \cup ChainArchives
          /\ positions \in ShortUserSeqs
       \/ /\ games \in LongArchives
          /\ positions = LongUserSeq
    /\ user_preference \in Preferences
    /\ user_board_sum = 0
    /\ user_centipawn = Absent
    /\ best_index = 0
    /\ results = EmptyResults
    /\ current_board_sum = 0
    /\ run = 0
    /\ best_move = NoMove
    /\ pc = "new"
    /\ error = "none"
    /\ calls = 0
    /\ trace = <<>>
    /\ history = <<>>
    /\ probe = <<>>

\* the search has ended: it returned, or an exception left __call__
Ended == pc = "returned" \/ (pc = "raised" /\ calls > 0)

Outcome ==
    [games |-> games, trace |-> trace, results |-> results, pc |-> pc,
     error |-> error]

\* the caller keeps the Dagger object for another __call__: its attributes,
\* self.results among them, stay as the first search left them
Reuse ==
    /\ Ended
    /\ history = <<>>
    /\ history' = <<Outcome>>
    /\ pc' = "ready"
    /\ error' = "none"
    /\ UNCHANGED <<games, positions, user_preference, user_board_sum,
                   user_centipawn, best_index, results, current_board_sum,
                   run, best_move, calls, trace, probe>>

\* the state before __init__ of a new Dagger over the archive g
Fresh(g) ==
    /\ games' = g
    /\ user_board_sum' = 0
    /\ user_centipawn' = Absent
    /\ best_index' = 0
    /\ results' = EmptyResults
    /\ current_board_sum' = 0
    /\ run' = 0
    /\ best_move' = NoMove
    /\ pc' = "new"
    /\ error' = "none"
    /\ calls' = 0
    /\ trace' = <<>>
    /\ UNCHANGED <<positions, user_preference, probe>>

\* a new Dagger for the same user game over the same archive snapshot
NewSession ==
    /\ Ended
    /\ history = <<>>
    /\ history' = <<Outcome>>
    /\ Fresh(games)

\* the fingerprint of round 3 was matched by no earlier round's filter
ThirdOnly ==
    /\ Len(trace) >= 3
    /\ trace[3].board_sum # trace[1].board_sum
    /\ trace[3].board_sum # trace[2].board_sum

\* another game text than that of any game of the archive
OtherPgn(pgn) == pgn + 100

\* a new Dagger for the same user game over a snapshot that differs from
\* the first in the evaluation or in the pgn of one row matched by round 3's
\* filter alone
NewSnapshot ==
    /\ Ended
    /\ history = <<>>
    /\ ThirdOnly
    /\ history' = <<Outcome>>
    /\ \E i \in 1 .. NRows :
          /\ games[i].board_sum = trace[3].board_sum
          /\ \/ \E v \in Evals \ {games[i].centipawn_evaluation} :
                   Fresh([games EXCEPT ![i].centipawn_evaluation = v])
             \/ Fresh([games EXCEPT ![i].pgn = OtherPgn(games[i].pgn)])

NextTwo ==
    \/ Next
    \/ Reuse
    \/ NewSession
    \/ NewSnapshot

SpecTwo == InitTwo /\ [][NextTwo]_vars

-----------------------------------------------------------------------------
(* Properties of two runs *)

\* the first run, once the search was repeated
First == history[1]

SameSnapshot == history # <<>> /\ games = First.games

OtherSnapshot == history # <<>> /\ games # First.games

\* C10: a second run of the search over the same archive snapshot, with the
\* same start fingerprint, target evaluation and preference, ends as the
\* first did (returned, or raised the same failure) with the same selection
\* in every round and the same entries in self.results.
C10_Determinism ==
    (SameSnapshot /\ Ended) =>
        /\ pc = First.pc
        /\ error = First.error
        /\ trace = First.trace
        /\ results = First.results

\* a second __call__ of the same Dagger returned five rounds, the first of
\* them chosen among several candidates of equal cost
C10_Witness ==
    /\ SameSnapshot
    /\ pc = "returned"
    /\ calls = 2
    /\ Len(trace) = NumRounds
    /\ \E k \in 1 .. Len(queue(user_board_sum)) :
          /\ k - 1 # trace[1].label
          /\ CostEq(queue(user_board_sum)[k].cost,
                    loss_function(popped_index(user_board_sum), DefaultDepth))

\* the selections of rounds 1 and 2 of the second run are those of the first
SameFirstTwoRounds ==
    /\ \A r \in 1 .. 2 : Len(trace) >= r => trace[r] = First.trace[r]
    /\ Ended => /\ Len(trace) >= 2
                /\ \A r \in 1 .. 2 : results[r] = First.results[r]

ScoredLabels(fp) ==
    {i \in Labels :
        i <= Cardinality({j \in Labels : Row(j).board_sum = fp}) + 8}

\* the rows whose evaluation differs between the two snapshots
ChangedEvals ==
    {i \in Labels :
        Row(i).centipawn_evaluation # First.games[i + 1].centipawn_evaluation}

====
